---- MODULE Spec2Model ----
(***************************************************************************)
(* Model of tools/gen_gamma_lut.py: the 256-entry gamma lookup table       *)
(* builder (build_gamma_lut), the two renderers (emit_c_array, emit_csv)   *)
(* and the command-line entry point (main, run as a script).               *)
(*                                                                         *)
(* Three specifications share the variables:                               *)
(*   SpecBuild   one call of build_gamma_lut, one action per loop turn;    *)
(*   SpecRender  one call of a renderer on a drawn table;                  *)
(*   Spec        one run of the script: argv -> parse -> build -> write.   *)
(*                                                                         *)
(* Numbers.  A gamma is a pair <<p, q>>: the rational p/q when q >= 1,     *)
(* NaN when <<0, 0>>, +infinity when <<1, 0>> (argparse's type=float       *)
(* accepts "nan" and "inf").  The doubles of lines 29-31 are modelled by   *)
(* exact real arithmetic on arbitrary-precision naturals together with an  *)
(* error window: the computed y * 255.0 + 0.5 lies within 2^-(ErrBits+1)   *)
(* of the exact real value (the real error of the four roundings is below  *)
(* 2^-40), and int() may yield any integer that some value in the window   *)
(* truncates to.                                                           *)
(*                                                                         *)
(* Text.  A Python str is a sequence of atoms; an atom is a literal        *)
(* fragment of the source ("static const uint8_t ", ", ", "\n"), one       *)
(* character of a formatted number, or the array name.                     *)
(***************************************************************************)
EXTENDS Integers, Sequences, FiniteSets, TLC

VARIABLES
    pc,       \* position of the running call / process
    gamma,    \* build_gamma_lut: parameter gamma
    i,        \* build_gamma_lut: loop variable i (line 28)
    out,      \* build_gamma_lut: local list out (line 27)
    computed, \* build_gamma_lut: number of loop bodies executed so far
    exc,      \* the exception raised and not caught, "" when none
    rargs,    \* renderer call: [values, name, progmem, include_helper]
    text,     \* renderer call: what was returned, <<>> before the return
    argv,     \* main: the command line, each option <<>> (absent) or <<value>>
    args,     \* main: the parsed namespace (line 82)
    values,   \* main: local values (line 84)
    calls,    \* main: the functions main has called, in order
    stdout,   \* the writes made to sys.stdout, in order
    stderr,   \* the diagnostics written to sys.stderr, in order
    ret,      \* main: <<status>> once main has returned, <<>> before / never
    status    \* the process exit status, -1 while running

vars == <<pc, gamma, i, out, computed, exc, rargs, text, argv, args, values,
          calls, stdout, stderr, ret, status>>

(***************************************************************************)
(* Bounds of the model.                                                    *)
(***************************************************************************)
\* integer gammas -1 .. MaxGammaInt are drawn (with 1/2, 11/5, 14/5, nan, inf)
MaxGammaInt == 3
\* half-width of the float error window is 2^-(ErrBits+1)
ErrBits == 20
\* drawn renderer tables are k |-> (m * k + a) % 256 for m in 0 .. MaxMul
MaxMul == 1

(***************************************************************************)
(* Arbitrary-precision naturals: little-endian limbs in base Base, no      *)
(* leading zero limb, <<>> is zero.  They carry the exact values of the    *)
(* float expressions of lines 29-31.                                       *)
(***************************************************************************)
Base == 10000
Chunk == 32768

RECURSIVE BigOfInt(_)
BigOfInt(n) ==
    IF n = 0 THEN <<>> ELSE <<n % Base>> \o BigOfInt(n \div Base)

RECURSIVE BigMulCarry(_, _, _)
BigMulCarry(X, m, c) ==
    IF X = <<>> THEN BigOfInt(c)
    ELSE LET t == Head(X) * m + c
         IN  <<t % Base>> \o BigMulCarry(Tail(X), m, t \div Base)

\* X * m for 0 <= m < 2 * Chunk
BigMulSmall(X, m) ==
    IF m = 0 THEN <<>> ELSE BigMulCarry(X, m, 0)

RECURSIVE BigAddCarry(_, _, _)
BigAddCarry(X, Y, c) ==
    IF X = <<>> /\ Y = <<>> THEN BigOfInt(c)
    ELSE LET a == IF X = <<>> THEN 0 ELSE Head(X)
             b == IF Y = <<>> THEN 0 ELSE Head(Y)
             t == a + b + c
         IN  <<t % Base>> \o BigAddCarry(IF X = <<>> THEN X ELSE Tail(X),
                                         IF Y = <<>> THEN Y ELSE Tail(Y),
                                         t \div Base)

BigAdd(X, Y) ==
    BigAddCarry(X, Y, 0)

\* X * a for 0 <= a < 2^31
BigMulInt(X, a) ==
    IF a < Chunk THEN BigMulSmall(X, a)
    ELSE BigAdd(BigMulSmall(BigMulSmall(X, a \div Chunk), Chunk),
                BigMulSmall(X, a % Chunk))

\* X * a^k
RECURSIVE BigMulPow(_, _, _)
BigMulPow(X, a, k) ==
    IF k <= 0 THEN X ELSE BigMulPow(BigMulInt(X, a), a, k - 1)

RECURSIVE BigGeqFrom(_, _, _)
BigGeqFrom(X, Y, k) ==
    IF k = 0 THEN TRUE
    ELSE IF X[k] # Y[k] THEN X[k] > Y[k]
    ELSE BigGeqFrom(X, Y, k - 1)

\* X >= Y
BigGeq(X, Y) ==
    IF Len(X) # Len(Y) THEN Len(X) > Len(Y) ELSE BigGeqFrom(X, Y, Len(X))

(***************************************************************************)
(* Gamma values (the float parameter of build_gamma_lut).                  *)
(***************************************************************************)
NaN == <<0, 0>>
PosInf == <<1, 0>>

IsNaN(g) == g = NaN
IsInf(g) == g = PosInf

\* LeqZero as if line 25 were gamma < 0.0
LeqZeroStrict(g) ==
    ~IsNaN(g) /\ g[1] < 0

\* gamma <= 0.0 (line 25); every comparison with NaN is false
LeqZero(g) ==
    ~IsNaN(g) /\ g[1] <= 0

\* the gammas drawn as inputs: -1, 0, 1 .. MaxGammaInt, 0.5, 2.2, 2.8, nan, inf
GammaInputs ==
    {<<p, 1>> : p \in -1 .. MaxGammaInt}
        \cup {<<1, 2>>, <<11, 5>>, <<14, 5>>, NaN, PosInf}

(***************************************************************************)
(* build_gamma_lut, lines 24-37.                                           *)
(***************************************************************************)
TableSize == 256
MaxByte == 255

\* 1 / (2 * Scale) is the half-width of the float error window
Scale == 2 ^ ErrBits

\* i ^ p * (2 * 255 * Scale) ^ q: the left side of WindowReaches
PowLeft(idx, g) ==
    BigMulPow(BigMulPow(<<1>>, idx, g[1]), 2 * MaxByte * Scale, g[2])

\* PowRight as if line 29 were x = i / 256.0
PowRightBy256(g) ==
    BigMulPow(<<1>>, TableSize, g[1])

\* 255 ^ p: the constant factor of the right side of WindowReaches
PowRight(g) ==
    BigMulPow(<<1>>, MaxByte, g[1])

\* WindowReaches as if line 31 were int(y * 255.0): no 0.5 is added
WindowReachesTruncating(L, K, q, n, s) ==
    LET a == 2 * Scale * n - s
    IN  a <= 0 \/ BigGeq(L, BigMulPow(K, a, q))

\* (idx / 255) ^ (p/q) * 255 + 0.5 + s / (2 * Scale) >= n, in integers:
\* with a = 2 * Scale * n - Scale - s it is a <= 0 or
\* idx^p * (2 * 255 * Scale)^q >= a^q * 255^p.  L = PowLeft, K = PowRight.
WindowReaches(L, K, q, n, s) ==
    LET a == 2 * Scale * n - Scale - s
    IN  a <= 0 \/ BigGeq(L, BigMulPow(K, a, q))

\* the greatest n in lo .. hi - 1 the window's end s reaches (lo is reached,
\* hi is not)
RECURSIVE FloorSearch(_, _, _, _, _, _)
FloorSearch(L, K, q, s, lo, hi) ==
    IF hi - lo <= 1 THEN lo
    ELSE LET mid == (lo + hi) \div 2
         IN  IF WindowReaches(L, K, q, mid, s)
             THEN FloorSearch(L, K, q, s, mid, hi)
             ELSE FloorSearch(L, K, q, s, lo, mid)

\* floor of the window's end s, capped at TableSize (every value above
\* MaxByte is clamped alike at lines 34-35)
WindowFloor(L, K, q, s) ==
    IF WindowReaches(L, K, q, TableSize, s) THEN TableSize
    ELSE FloorSearch(L, K, q, s, 0, TableSize)

\* math.pow(x, gamma) is NaN (line 30): pow(1.0, nan) is 1.0, else nan
PowIsNaN(idx, g) ==
    IsNaN(g) /\ idx # MaxByte

\* lines 29-31: the integers v = int(y * 255.0 + 0.5) may be, for a gamma
\* that is no NaN.  pow(x, inf) is exactly 0.0 for x < 1 and 1.0 for x = 1.
IntOfScaled(idx, g) ==
    IF IsInf(g) \/ IsNaN(g) THEN {IF idx = MaxByte THEN MaxByte ELSE 0}
    ELSE LET L == PowLeft(idx, g)
             K == PowRight(g)
             lo == WindowFloor(L, K, g[2], -1)
         IN  IF lo < TableSize /\ WindowReaches(L, K, g[2], lo + 1, 1)
             THEN {lo, lo + 1} ELSE {lo}

\* lines 32-35
Clamp(v) ==
    IF v < 0 THEN 0 ELSE IF v > MaxByte THEN MaxByte ELSE v

\* LoopBody as if line 29 were x = (255 - i) / 255.0
LoopBodyReversed(idx, g) ==
    {Clamp(v) : v \in IntOfScaled(MaxByte - idx, g)}

\* lines 29-35: the values one turn of the loop may append for index idx
LoopBody(idx, g) ==
    {Clamp(v) : v \in IntOfScaled(idx, g)}

ErrGamma == "ValueError: gamma must be > 0"
ErrNaN == "ValueError: cannot convert float NaN to integer"

\* lines 28-36 for every gamma a call can carry: the values each turn of
\* the loop may append, computed once (no turn runs for a gamma the check
\* of line 25 or the int() of the first turn rejects)
LoopValues ==
    [g \in GammaInputs |->
        IF LeqZero(g) \/ PowIsNaN(0, g) THEN <<>>
        ELSE [k \in 1 .. TableSize |-> LoopBody(k - 1, g)]]

\* the tables the loop may build for indexes lo .. hi
RECURSIVE LoopTables(_, _, _)
LoopTables(g, lo, hi) ==
    IF lo = hi THEN {<<v>> : v \in LoopValues[g][lo + 1]}
    ELSE LET mid == (lo + hi) \div 2
         IN  {a \o b : a \in LoopTables(g, lo, mid),
                       b \in LoopTables(g, mid + 1, hi)}

\* the whole call: the outcomes [exc, values] build_gamma_lut(g) may have
build_gamma_lut(g) ==
    IF LeqZero(g) THEN {[exc |-> ErrGamma, values |-> <<>>]}
    ELSE IF PowIsNaN(0, g) THEN {[exc |-> ErrNaN, values |-> <<>>]}
    ELSE {[exc |-> "", values |-> t] : t \in LoopTables(g, 0, TableSize - 1)}

\* a call of build_gamma_lut starts: nothing has run yet
InitBuild ==
    /\ pc = "b_call"
    /\ gamma \in GammaInputs
    /\ i = 0
    /\ out = <<>>
    /\ computed = 0
    /\ exc = ""
    /\ rargs = [values |-> <<>>, name |-> "", progmem |-> FALSE,
                include_helper |-> FALSE]
    /\ text = <<>>
    /\ argv = [gamma |-> <<>>, name |-> <<>>, progmem |-> FALSE,
               helper |-> FALSE, format |-> <<>>]
    /\ args = [gamma |-> <<0, 1>>, name |-> "", progmem |-> FALSE,
               helper |-> FALSE, format |-> ""]
    /\ values = <<>>
    /\ calls = <<>>
    /\ stdout = <<>>
    /\ stderr = <<>>
    /\ ret = <<>>
    /\ status = -1

\* BuildCheck as if line 28 were range(1, 256)
BuildCheckFromOne ==
    /\ pc = "b_call"
    /\ IF LeqZero(gamma)
       THEN /\ exc' = ErrGamma
            /\ pc' = "b_raised"
            /\ UNCHANGED <<i, out>>
       ELSE /\ out' = <<>>
            /\ i' = 1
            /\ pc' = "b_loop"
            /\ UNCHANGED exc
    /\ UNCHANGED <<gamma, computed, rargs, text, argv, args, values, calls,
                   stdout, stderr, ret, status>>

\* lines 25-27
BuildCheck ==
    /\ pc = "b_call"
    /\ IF LeqZero(gamma)
       THEN /\ exc' = ErrGamma
            /\ pc' = "b_raised"
            /\ UNCHANGED <<i, out>>
       ELSE /\ out' = <<>>
            /\ i' = 0
            /\ pc' = "b_loop"
            /\ UNCHANGED exc
    /\ UNCHANGED <<gamma, computed, rargs, text, argv, args, values, calls,
                   stdout, stderr, ret, status>>

\* lines 28-36, one turn of the loop
BuildStep ==
    /\ pc = "b_loop"
    /\ i < TableSize
    /\ IF PowIsNaN(i, gamma)
       THEN /\ exc' = ErrNaN
            /\ pc' = "b_raised"
            /\ UNCHANGED <<i, out, computed>>
       ELSE /\ \E v \in LoopBody(i, gamma) : out' = Append(out, v)
            /\ i' = i + 1
            /\ computed' = computed + 1
            /\ UNCHANGED <<pc, exc>>
    /\ UNCHANGED <<gamma, rargs, text, argv, args, values, calls, stdout,
                   stderr, ret, status>>

\* line 37
BuildReturn ==
    /\ pc = "b_loop"
    /\ i = TableSize
    /\ values' = out
    /\ pc' = "b_returned"
    /\ UNCHANGED <<gamma, i, out, computed, exc, rargs, text, argv, args,
                   calls, stdout, stderr, ret, status>>

NextBuild ==
    \/ BuildCheck
    \/ BuildStep
    \/ BuildReturn

SpecBuild == InitBuild /\ [][NextBuild]_vars

(***************************************************************************)
(* Python str operations used by the renderers.                            *)
(***************************************************************************)
Digits == <<"0", "1", "2", "3", "4", "5", "6", "7", "8", "9">>

\* str(v) for an int v >= 0: its decimal digits, most significant first
RECURSIVE str(_)
str(v) ==
    IF v < 10 THEN <<Digits[v + 1]>>
    ELSE str(v \div 10) \o <<Digits[(v % 10) + 1]>>

FieldWidth == 3

\* f'{v:3d}' (line 49): str(v) right-aligned in FieldWidth columns
Format3d(v) ==
    LET digits == str(v)
    IN  [k \in 1 .. (FieldWidth - Len(digits)) |-> " "] \o digits

\* sep.join(items): the items with sep between neighbours
RECURSIVE join(_, _)
join(sep, items) ==
    IF items = <<>> THEN <<>>
    ELSE IF Len(items) = 1 THEN items[1]
    ELSE LET h == Len(items) \div 2
         IN  join(sep, SubSeq(items, 1, h)) \o sep
                 \o join(sep, SubSeq(items, h + 1, Len(items)))

\* the slice s[a : b] of a list, 0 <= a <= b: clipped to the list's length
Slice(s, a, b) ==
    LET hi == IF b < Len(s) THEN b ELSE Len(s)
    IN  IF a >= hi THEN <<>> ELSE SubSeq(s, a + 1, hi)

(***************************************************************************)
(* emit_c_array, lines 40-59, and emit_csv, lines 62-63.                   *)
(***************************************************************************)
RowLen == 16

Qual == "static const uint8_t "
QualProgmem == "static const uint8_t PROGMEM "

\* lines 48-49: the text line of the row that starts at index row
RowLine(vals, row) ==
    LET chunk == Slice(vals, row, row + RowLen)
    IN  <<"    ">>
            \o join(<<", ">>, [k \in 1 .. Len(chunk) |-> Format3d(chunk[k])])
            \o <<",">>

\* HelperLines as if lines 54-57 were the direct read alone
HelperLinesDirect(name, progmem) ==
    << <<>>,
       <<"static inline uint8_t ", name, "_read(uint8_t v) {">>,
       <<"    return ", name, "[v];">>,
       <<"}">> >>

\* lines 51-58: the lines of the read accessor
HelperLines(name, progmem) ==
    << <<>>,
       <<"static inline uint8_t ", name, "_read(uint8_t v) {">>,
       IF progmem THEN <<"    return pgm_read_byte(&", name, "[v]);">>
                  ELSE <<"    return ", name, "[v];">>,
       <<"}">> >>

emit_c_array(vals, name, progmem, include_helper) ==
    LET qual == IF progmem THEN QualProgmem ELSE Qual
        rows == [r \in 1 .. (TableSize \div RowLen) |->
                    RowLine(vals, (r - 1) * RowLen)]
        lines == << <<qual, name, "[256] = {">> >> \o rows \o << <<"};">> >>
                     \o (IF include_helper THEN HelperLines(name, progmem)
                         ELSE <<>>)
    IN  join(<<"\n">>, lines)

\* emit_csv as if every value were written with a comma after it
EmitCsvTrailingComma(vals) ==
    join(<<",">>, [k \in 1 .. Len(vals) |-> str(vals[k])]) \o <<",">>

emit_csv(vals) ==
    join(<<",">>, [k \in 1 .. Len(vals) |-> str(vals[k])])

(***************************************************************************)
(* One call of a renderer on a drawn table.                                *)
(***************************************************************************)
\* the table k |-> (m * k + a) % 256 of n entries
Ramp(n, m, a) ==
    [k \in 1 .. n |-> (m * (k - 1) + a) % TableSize]

TableInputs ==
    {Ramp(n, m, a) : n \in {0, TableSize - 1, TableSize, TableSize + 1},
                     m \in 0 .. MaxMul, a \in {0, 7, 250}}

NameInputs == {"gamma8", "led"}

InitRender ==
    /\ pc = "r_call"
    /\ rargs \in [values : TableInputs, name : NameInputs,
                  progmem : BOOLEAN, include_helper : BOOLEAN]
    /\ text = <<>>
    /\ exc = ""
    /\ gamma = <<0, 1>>
    /\ i = 0
    /\ out = <<>>
    /\ computed = 0
    /\ argv = [gamma |-> <<>>, name |-> <<>>, progmem |-> FALSE,
               helper |-> FALSE, format |-> <<>>]
    /\ args = [gamma |-> <<0, 1>>, name |-> "", progmem |-> FALSE,
               helper |-> FALSE, format |-> ""]
    /\ values = <<>>
    /\ calls = <<>>
    /\ stdout = <<>>
    /\ stderr = <<>>
    /\ ret = <<>>
    /\ status = -1

\* a call emit_c_array(values, name, progmem, include_helper) runs to its
\* return (lines 43-59 raise nothing on a list of ints)
CallEmitCArray ==
    /\ pc = "r_call"
    /\ text' = emit_c_array(rargs.values, rargs.name, rargs.progmem,
                            rargs.include_helper)
    /\ pc' = "r_c_returned"
    /\ UNCHANGED <<gamma, i, out, computed, exc, rargs, argv, args, values,
                   calls, stdout, stderr, ret, status>>

\* a call emit_csv(values) runs to its return
CallEmitCsv ==
    /\ pc = "r_call"
    /\ text' = emit_csv(rargs.values)
    /\ pc' = "r_csv_returned"
    /\ UNCHANGED <<gamma, i, out, computed, exc, rargs, argv, args, values,
                   calls, stdout, stderr, ret, status>>

NextRender ==
    \/ CallEmitCArray
    \/ CallEmitCsv

SpecRender == InitRender /\ [][NextRender]_vars

(***************************************************************************)
(* main, lines 66-89, run as a script, lines 92-93.                        *)
(***************************************************************************)
DefaultGamma == <<11, 5>>
DefaultName == "gamma8"
DefaultFormat == "c"
FormatChoices == {"c", "csv"}

\* the command lines drawn: each option absent (<<>>) or given once
ArgvInputs ==
    [gamma : {<<>>} \cup {<<g>> : g \in GammaInputs},
     name : {<<>>, <<"led">>},
     progmem : BOOLEAN,
     helper : BOOLEAN,
     format : {<<>>, <<"c">>, <<"csv">>, <<"array">>, <<"json">>}]

ErrChoice == "error: argument --format: invalid choice"
Traceback == "Traceback (most recent call last): "

Init ==
    /\ pc = "m_start"
    /\ argv = [gamma |-> <<>>, name |-> <<>>, progmem |-> FALSE,
               helper |-> FALSE, format |-> <<>>]
    /\ args = [gamma |-> <<0, 1>>, name |-> "", progmem |-> FALSE,
               helper |-> FALSE, format |-> ""]
    /\ values = <<>>
    /\ calls = <<>>
    /\ stdout = <<>>
    /\ stderr = <<>>
    /\ ret = <<>>
    /\ status = -1
    /\ exc = ""
    /\ gamma = <<0, 1>>
    /\ i = 0
    /\ out = <<>>
    /\ computed = 0
    /\ rargs = [values |-> <<>>, name |-> "", progmem |-> FALSE,
                include_helper |-> FALSE]
    /\ text = <<>>

\* lines 92-93: the script is run with a command line; main(sys.argv[1:])
Start ==
    /\ pc = "m_start"
    /\ argv' \in ArgvInputs
    /\ pc' = "m_parse"
    /\ UNCHANGED <<gamma, i, out, computed, exc, rargs, text, args, values,
                   calls, stdout, stderr, ret, status>>

\* lines 67-82: parse_args fills the defaults in; on a --format outside
\* choices it prints the error to stderr and exits the process with 2
ParseArgs ==
    /\ pc = "m_parse"
    /\ IF argv.format # <<>> /\ argv.format[1] \notin FormatChoices
       THEN /\ stderr' = Append(stderr, ErrChoice)
            /\ status' = 2
            /\ pc' = "exited"
            /\ UNCHANGED args
       ELSE /\ args' =
                [gamma |-> IF argv.gamma = <<>> THEN DefaultGamma
                           ELSE argv.gamma[1],
                 name |-> IF argv.name = <<>> THEN DefaultName
                          ELSE argv.name[1],
                 progmem |-> argv.progmem,
                 helper |-> argv.helper,
                 format |-> IF argv.format = <<>> THEN DefaultFormat
                            ELSE argv.format[1]]
            /\ pc' = "m_build"
            /\ UNCHANGED <<stderr, status>>
    /\ UNCHANGED <<gamma, i, out, computed, exc, rargs, text, argv, values,
                   calls, stdout, ret>>

\* line 84: values = build_gamma_lut(args.gamma); main catches nothing
Build ==
    /\ pc = "m_build"
    /\ calls' = Append(calls, "build_gamma_lut")
    /\ \E r \in build_gamma_lut(args.gamma) :
          IF r.exc # ""
          THEN /\ exc' = r.exc
               /\ pc' = "m_raised"
               /\ UNCHANGED values
          ELSE /\ values' = r.values
               /\ pc' = "m_render"
               /\ UNCHANGED exc
    /\ UNCHANGED <<gamma, i, out, computed, rargs, text, argv, args, stdout,
                   stderr, ret, status>>

\* Write as if line 85 tested args.format == 'c'
WriteSwapped ==
    /\ pc = "m_render"
    /\ IF args.format = "c"
       THEN /\ calls' = Append(calls, "emit_csv")
            /\ stdout' = Append(stdout, emit_csv(values) \o <<"\n">>)
       ELSE /\ calls' = Append(calls, "emit_c_array")
            /\ stdout' = Append(stdout,
                   emit_c_array(values, args.name, args.progmem, args.helper)
                       \o <<"\n">>)
    /\ pc' = "m_return"
    /\ UNCHANGED <<gamma, i, out, computed, exc, rargs, text, argv, args,
                   values, stderr, ret, status>>

\* lines 85-88: one sys.stdout.write of the selected renderer's text + '\n'
Write ==
    /\ pc = "m_render"
    /\ IF args.format = "csv"
       THEN /\ calls' = Append(calls, "emit_csv")
            /\ stdout' = Append(stdout, emit_csv(values) \o <<"\n">>)
       ELSE /\ calls' = Append(calls, "emit_c_array")
            /\ stdout' = Append(stdout,
                   emit_c_array(values, args.name, args.progmem, args.helper)
                       \o <<"\n">>)
    /\ pc' = "m_return"
    /\ UNCHANGED <<gamma, i, out, computed, exc, rargs, text, argv, args,
                   values, stderr, ret, status>>

\* line 89: return 0
Return ==
    /\ pc = "m_return"
    /\ ret' = <<0>>
    /\ pc' = "m_exit"
    /\ UNCHANGED <<gamma, i, out, computed, exc, rargs, text, argv, args,
                   values, calls, stdout, stderr, status>>

\* line 93: raise SystemExit(main(...)): the process exits with main's value
Exit ==
    /\ pc = "m_exit"
    /\ status' = ret[1]
    /\ pc' = "exited"
    /\ UNCHANGED <<gamma, i, out, computed, exc, rargs, text, argv, args,
                   values, calls, stdout, stderr, ret>>

\* Uncaught as if main swallowed the error and returned 0
UncaughtSwallowed ==
    /\ pc = "m_raised"
    /\ ret' = <<0>>
    /\ status' = 0
    /\ pc' = "exited"
    /\ UNCHANGED <<gamma, i, out, computed, exc, rargs, text, argv, args,
                   values, calls, stdout, stderr>>

\* lines 84 and 93 with an exception in flight: nothing catches it, main
\* returns no value, the interpreter prints the traceback to stderr and the
\* process exits with 1
Uncaught ==
    /\ pc = "m_raised"
    /\ stderr' = Append(stderr, Traceback \o exc)
    /\ status' = 1
    /\ pc' = "exited"
    /\ UNCHANGED <<gamma, i, out, computed, exc, rargs, text, argv, args,
                   values, calls, stdout, ret>>

Next ==
    \/ Start
    \/ ParseArgs
    \/ Build
    \/ Write
    \/ Return
    \/ Exit
    \/ Uncaught

Spec == Init /\ [][Next]_vars

(***************************************************************************)
(* Properties of build_gamma_lut, checked under SpecBuild.                 *)
(***************************************************************************)
\* gamma > 0 (a valid gamma)
Positive(g) ==
    ~IsNaN(g) /\ g[1] > 0

\* a finite gamma p/q > 0
Rational(g) ==
    g[2] >= 1 /\ g[1] >= 1

\* the exact real (idx / 255) ^ (p/q) * 255 + 1/2 is >= n, for n >= 1:
\* idx^p * 510^q >= (2n - 1)^q * 255^p
HalfUpReaches(idx, g, n) ==
    BigGeq(BigMulPow(BigMulPow(<<1>>, idx, g[1]), 2 * MaxByte, g[2]),
           BigMulPow(BigMulPow(<<1>>, MaxByte, g[1]), 2 * n - 1, g[2]))

\* v is floor((idx / 255) ^ (p/q) * 255 + 1/2) clamped into 0 .. 255
IsRoundHalfUp(idx, g, v) ==
    /\ v \in 0 .. MaxByte
    /\ v = 0 \/ HalfUpReaches(idx, g, v)
    /\ v = MaxByte \/ ~HalfUpReaches(idx, g, v + 1)

\* C1: for every finite gamma g > 0 of the model (1, 2, 3, 1/2, 11/5, 14/5)
\* and every index i in 0..255, the returned table has
\* T[i] = floor((i/255)^g * 255 + 0.5) clamped into [0,255], the exact
\* round-half-up value: the float error never moves an entry.  The entry a
\* turn of the loop has just appended is the round-half-up value too.
C1_RoundHalfUp ==
    /\ (pc = "b_loop" /\ Rational(gamma) /\ i > 0) =>
          (Len(out) = i /\ IsRoundHalfUp(i - 1, gamma, out[i]))
    /\ (pc = "b_returned" /\ Rational(gamma)) =>
          \A idx \in 0 .. (TableSize - 1) :
              IsRoundHalfUp(idx, gamma, values[idx + 1])

\* gamma 2 returned a table whose entry 20 was rounded up: 400/255 = 1.57 -> 2
C1_Witness ==
    /\ pc = "b_returned"
    /\ gamma = <<2, 1>>
    /\ values[21] = 2
    /\ values[129] = 64

\* C2: for every valid gamma g > 0 the call returns (it does not raise), and
\* the table returned has exactly 256 entries, each an integer in [0,255],
\* with T[0] = 0 and T[255] = 255.
C2_TableShape ==
    /\ (Positive(gamma) /\ pc # "b_call") => pc \in {"b_loop", "b_returned"}
    /\ (Positive(gamma) /\ pc = "b_returned") =>
          /\ Len(values) = TableSize
          /\ \A k \in 1 .. Len(values) : values[k] \in 0 .. MaxByte
          /\ values[1] = 0
          /\ values[TableSize] = MaxByte

\* gamma 2.2 returned a 256-entry table from 0 to 255
C2_Witness ==
    /\ pc = "b_returned"
    /\ gamma = <<11, 5>>
    /\ Len(values) = TableSize
    /\ values[1] = 0
    /\ values[TableSize] = MaxByte

\* C3: the returned table is non-decreasing: for every valid gamma g > 0 and
\* all indices i < j in 0..255, T[i] <= T[j].
C3_Monotone ==
    (Positive(gamma) /\ pc = "b_returned") =>
        \A a \in 1 .. Len(values) : \A b \in 1 .. Len(values) :
            a < b => values[a] <= values[b]

\* gamma 1/2 returned a table that rises strictly somewhere
C3_Witness ==
    /\ pc = "b_returned"
    /\ gamma = <<1, 2>>
    /\ values[2] < values[3]
    /\ values[TableSize - 1] <= values[TableSize]

\* a finite gamma p/q <= 0
NonPositive(g) ==
    g[2] >= 1 /\ g[1] <= 0

\* C4: for every gamma g <= 0 (0 and -1 in particular) the call fails with
\* the ValueError of line 26 and produces no table: the check comes before
\* any entry is computed, so no loop body has run and nothing is returned.
C4_NonPositiveRejected ==
    (NonPositive(gamma) /\ pc # "b_call") =>
        /\ pc = "b_raised"
        /\ exc = ErrGamma
        /\ computed = 0
        /\ out = <<>>
        /\ values = <<>>

\* the call with gamma 0 has raised
C4_Witness ==
    /\ pc = "b_raised"
    /\ gamma = <<0, 1>>
    /\ exc = ErrGamma

\* C10 as stated: for gamma 2.2, T[128] = 60 and T[64] = 12.
C10_AsStated ==
    (pc = "b_returned" /\ gamma = <<11, 5>>) =>
        (values[129] = 60 /\ values[65] = 12)

\* C10 amended: for gamma 2.2, T[128] = 56 and T[64] = 12
\* ((128/255)^2.2 * 255 is 55.98, not 59.72).
C10_Gamma22 ==
    (pc = "b_returned" /\ gamma = <<11, 5>>) =>
        (values[129] = 56 /\ values[65] = 12)

\* the call with gamma 2.2 has returned its table
C10_Witness ==
    /\ pc = "b_returned"
    /\ gamma = <<11, 5>>
    /\ Len(values) > 128

(***************************************************************************)
(* Properties of the renderers, checked under SpecRender.                  *)
(***************************************************************************)
\* s.split(sep) for a one-atom separator: the pieces between the separators
RECURSIVE SplitOn(_, _)
SplitOn(s, sep) ==
    IF s = <<>> THEN << <<>> >>
    ELSE IF Len(s) = 1 THEN (IF s[1] = sep THEN << <<>>, <<>> >> ELSE <<s>>)
    ELSE LET h == Len(s) \div 2
             a == SplitOn(SubSeq(s, 1, h), sep)
             b == SplitOn(SubSeq(s, h + 1, Len(s)), sep)
         IN  SubSeq(a, 1, Len(a) - 1) \o <<a[Len(a)] \o b[1]>> \o Tail(b)

\* a decimal token: one digit or more, nothing else
IsDecimal(tok) ==
    /\ tok # <<>>
    /\ \A k \in 1 .. Len(tok) : \E d \in 1 .. 10 : tok[k] = Digits[d]

DigitValue(c) ==
    CHOOSE d \in 0 .. 9 : Digits[d + 1] = c

\* int(tok) for a decimal token
RECURSIVE ParseInt(_)
ParseInt(tok) ==
    IF Len(tok) = 1 THEN DigitValue(tok[1])
    ELSE 10 * ParseInt(SubSeq(tok, 1, Len(tok) - 1))
             + DigitValue(tok[Len(tok)])

\* pat occurs in s as a run of neighbouring atoms
Contains(s, pat) ==
    \E k \in 1 .. (Len(s) - Len(pat) + 1) :
        SubSeq(s, k, k + Len(pat) - 1) = pat

\* the atom k of the line is the placement annotation
HasPlacement(line) ==
    \E k \in 1 .. Len(line) : line[k] = QualProgmem

AccessorHead(name) == <<"static inline uint8_t ", name, "_read(uint8_t v) {">>
PrimitiveRead(name) == <<"    return pgm_read_byte(&", name, "[v]);">>
DirectRead(name) == <<"    return ", name, "[v];">>

\* C6 as stated: emit_c_array fails with an error, returning no text,
\* whenever the table passed to it does not hold exactly 256 entries.
C6_WrongLengthRejected ==
    (pc = "r_c_returned" /\ Len(rargs.values) # TableSize) =>
        (exc # "" /\ text = <<>>)

\* C7: for every 256-entry table of integers in [0,255], emit_csv returns
\* one line with no trailing comma; splitting it on commas yields exactly 256
\* decimal tokens, and token k parsed as an integer is table entry k.
C7_CsvRoundTrip ==
    (pc = "r_csv_returned" /\ Len(rargs.values) = TableSize) =>
        LET toks == SplitOn(text, ",")
        IN  /\ ~Contains(text, <<"\n">>)
            /\ text # <<>> /\ text[Len(text)] # ","
            /\ Len(toks) = TableSize
            /\ \A k \in 1 .. Len(toks) :
                  IsDecimal(toks[k]) /\ ParseInt(toks[k]) = rargs.values[k]

\* emit_csv returned the text of a 256-entry table with one-, two- and
\* three-digit entries
C7_Witness ==
    /\ pc = "r_csv_returned"
    /\ Len(rargs.values) = TableSize
    /\ rargs.values[1] = 7
    /\ rargs.values[4] = 10
    /\ rargs.values[94] = 100
    /\ Len(text) > TableSize

\* C8: in the text emit_c_array returns, for each combination of the two
\* flags: the declaration (first line) carries the PROGMEM annotation iff
\* progmem is set; the accessor <name>_read is emitted iff include_helper is
\* set; an emitted accessor reads through pgm_read_byte iff progmem is set
\* and by direct indexing otherwise; no annotated table is read directly.
C8_PlacementAndAccessor ==
    pc = "r_c_returned" =>
        LET decl == SplitOn(text, "\n")[1]
            name == rargs.name
            accessor == Contains(text, AccessorHead(name))
            primitive == Contains(text, PrimitiveRead(name))
            direct == Contains(text, DirectRead(name))
        IN  /\ decl[2] = name /\ decl[3] = "[256] = {"
            /\ HasPlacement(decl) <=> rargs.progmem
            /\ accessor <=> rargs.include_helper
            /\ primitive <=> (rargs.include_helper /\ rargs.progmem)
            /\ direct <=> (rargs.include_helper /\ ~rargs.progmem)
            /\ ~(HasPlacement(decl) /\ direct)

\* progmem and include_helper with the name led: led_read reads through
\* pgm_read_byte
C8_Witness ==
    /\ pc = "r_c_returned"
    /\ rargs.progmem /\ rargs.include_helper /\ rargs.name = "led"
    /\ Len(rargs.values) = TableSize
    /\ Contains(text, AccessorHead("led"))
    /\ Contains(text, PrimitiveRead("led"))

(***************************************************************************)
(* Properties of a run of the script, checked under Spec.                  *)
(***************************************************************************)
\* the run of main: the selector is validated against {array, csv} where
\* array is spelled arraySel and is the default; an accepted selector
\* dispatches to its renderer, any other is rejected before the Builder is
\* called; a successful run makes exactly one write to stdout, the selected
\* renderer's text and a newline, and main returns 0.
FormatContract(arraySel) ==
    LET given == argv.format # <<>>
        wantsArray == ~given \/ argv.format[1] = arraySel
        wantsCsv == given /\ argv.format[1] = "csv"
        g == IF argv.gamma = <<>> THEN DefaultGamma ELSE argv.gamma[1]
        name == IF argv.name = <<>> THEN DefaultName ELSE argv.name[1]
    IN  /\ Len(stdout) <= 1
        /\ (pc = "exited" /\ ~wantsArray /\ ~wantsCsv) =>
              /\ calls = <<>>
              /\ stdout = <<>>
              /\ status # 0
        /\ (pc = "exited" /\ wantsArray /\ Positive(g)) =>
              /\ calls = <<"build_gamma_lut", "emit_c_array">>
              /\ stdout = <<emit_c_array(values, name, argv.progmem,
                                         argv.helper) \o <<"\n">> >>
              /\ ret = <<0>> /\ status = 0
        /\ (pc = "exited" /\ wantsCsv /\ Positive(g)) =>
              /\ calls = <<"build_gamma_lut", "emit_csv">>
              /\ stdout = <<emit_csv(values) \o <<"\n">> >>
              /\ ret = <<0>> /\ status = 0
        /\ (pc = "exited" /\ status = 0) =>
              /\ Len(stdout) = 1
              /\ ret = <<0>>

\* C9 as stated: the closed set is {array, csv} with default array.
C9_AsStated ==
    FormatContract("array")

\* C9 amended: the closed set is {c, csv} with default c; the selector array
\* is one of the rejected ones.
C9_FormatDispatch ==
    FormatContract("c")

\* a run with --format csv has written one CSV text and exited with 0
C9_Witness ==
    /\ pc = "exited"
    /\ argv.format = <<"csv">>
    /\ status = 0
    /\ calls = <<"build_gamma_lut", "emit_csv">>
    /\ Len(stdout) = 1

\* C5 as stated: when the Builder raises, the run is aborted, a diagnostic
\* is on stderr, main returns a non-zero status, nothing is on stdout.
C5_AsStated ==
    (pc = "exited" /\ exc # "") =>
        /\ calls = <<"build_gamma_lut">>
        /\ stderr # <<>>
        /\ ret # <<>> /\ ret[1] # 0
        /\ stdout = <<>>

\* C5 amended: when the Builder raises, main does not return: the error
\* leaves main uncaught, no renderer is called, nothing is ever written to
\* stdout, the interpreter prints the traceback to stderr and the process
\* exits with status 1.
C5_BuilderErrorAborts ==
    /\ (calls # <<>> /\ ~Positive(args.gamma))
          => (exc # "" /\ pc \in {"m_raised", "exited"})
    /\ exc # "" =>
          /\ calls = <<"build_gamma_lut">>
          /\ stdout = <<>>
          /\ ret = <<>>
          /\ values = <<>>
    /\ (pc = "exited" /\ exc # "") =>
          /\ stderr = <<Traceback \o exc>>
          /\ status = 1

\* a run with --gamma 0 has ended with the traceback on stderr
C5_Witness ==
    /\ pc = "exited"
    /\ argv.gamma = << <<0, 1>> >>
    /\ exc = ErrGamma
    /\ status = 1
    /\ stderr # <<>>

====
